---- MODULE Spec2Model ----
(***************************************************************************)
(* Model of src/expensive_services_detail/breakdown_of_expensive_service.py *)
(* : the Lambda handler that asks Cost Explorer for the daily usage-type   *)
(* breakdown of every service named in event['services'] and returns the   *)
(* collected answers as a JSON body.                                       *)
(*                                                                         *)
(* Python and JSON values are tagged records:                              *)
(*   None  [t |-> "null"]            str   [t |-> "str", s |-> "..."]      *)
(*   int   [t |-> "num", n |-> 1]    list  [t |-> "arr", a |-> <<...>>]    *)
(*   dict  [t |-> "obj", m |-> << <<key, value>>, ... >>]                  *)
(* A dict keeps its members in insertion order, as a Python dict does.     *)
(* JSON text is a sequence of tokens (whitespace is dropped): punctuation, *)
(* null, decimal numbers and double-quoted string literals.                *)
(***************************************************************************)
EXTENDS Integers, Sequences, FiniteSets, TLC

VARIABLES
  pc,             \* "idle", "loop" (line 77), "call" (inside line 37),
                  \* "returned" (line 84) or "failed" (an exception left
                  \* lambda_handler)
  event,          \* the event of the current invocation
  services,       \* local of lambda_handler, line 71
  idx,            \* position of the for loop of line 77 in its iterable
  service_name,   \* local of lambda_handler, line 78
  cost_breakdown, \* local of lambda_handler, line 75 (members of the dict)
  response,       \* what lambda_handler returned, NoResponse if nothing
  raised,         \* the exception that left lambda_handler, "none" if none
  log,            \* the logging calls of the current invocation
  queries,        \* the get_cost_and_usage calls of the current invocation
  outcomes,       \* how each of them ended
  earlier_keys    \* the keys of the reports that earlier invocations returned

vars == <<pc, event, services, idx, service_name, cost_breakdown,
          response, raised, log, queries, outcomes, earlier_keys>>

(***************************************************************************)
(* Bounds of the model.                                                    *)
(***************************************************************************)
MaxLen == 3

(***************************************************************************)
(* Python / JSON values.                                                   *)
(***************************************************************************)
None == [t |-> "null"]

Str(s) == [t |-> "str", s |-> s]

Num(n) == [t |-> "num", n |-> n]

List(a) == [t |-> "arr", a |-> a]

Dict(m) == [t |-> "obj", m |-> m]

Names == {"Amazon EC2", "Amazon S3"}

StringPool == Names \cup {"Service", "Cost", ""}

NumberPool == {1, 2}

Range(f) == {f[j] : j \in DOMAIN f}

DictKeys(m) == [j \in 1..Len(m) |-> m[j][1]]

DictHas(m, k) == \E j \in 1..Len(m) : m[j][1] = k

DictGet(m, k) == m[CHOOSE j \in 1..Len(m) : m[j][1] = k][2]

\* d[k] = v where the key moves to the end when it is already present
DictSetMoveToEnd(m, k, v) ==
  SelectSeq(m, LAMBDA e : e[1] # k) \o << <<k, v>> >>

\* d.setdefault(k, v) : a present key keeps its first value
DictSetFirstWins(m, k, v) ==
  IF \E j \in 1..Len(m) : m[j][1] = k THEN m ELSE Append(m, <<k, v>>)

\* d[k] = v done only when v is not None
DictSetSkippingNone(m, k, v) ==
  IF v = None THEN m
  ELSE IF \E j \in 1..Len(m) : m[j][1] = k
    THEN [j \in 1..Len(m) |-> IF m[j][1] = k THEN <<k, v>> ELSE m[j]]
    ELSE Append(m, <<k, v>>)

\* d[k] = v : a present key keeps its position and takes the new value,
\* a new key is appended
DictSet(m, k, v) ==
  IF DictHas(m, k)
    THEN [j \in 1..Len(m) |-> IF m[j][1] = k THEN <<k, v>> ELSE m[j]]
    ELSE Append(m, <<k, v>>)

(***************************************************************************)
(* json.dumps : value -> token sequence.                                   *)
(***************************************************************************)
Quote(s) == "\"" \o s \o "\""

RECURSIVE Dumps(_)
RECURSIVE DumpsAll(_, _)

\* the elements of a list (kind "arr") or the members of a dict (kind
\* "obj"), separated by commas
DumpsAll(kind, xs) ==
  IF xs = <<>> THEN <<>>
  ELSE LET x == Head(xs)
           one == IF kind = "arr" THEN Dumps(x)
                  ELSE <<Quote(x[1]), ":">> \o Dumps(x[2])
       IN  IF Len(xs) = 1 THEN one
           ELSE one \o <<",">> \o DumpsAll(kind, Tail(xs))

Dumps(v) ==
  CASE v.t = "null" -> <<"null">>
    [] v.t = "str"  -> <<Quote(v.s)>>
    [] v.t = "num"  -> <<ToString(v.n)>>
    [] v.t = "arr"  -> <<"[">> \o DumpsAll("arr", v.a) \o <<"]">>
    [] v.t = "obj"  -> <<"{">> \o DumpsAll("obj", v.m) \o <<"}">>

(***************************************************************************)
(* json.loads : token sequence -> value, or a JSONDecodeError.             *)
(***************************************************************************)
ParseError == [ok |-> FALSE, v |-> None, next |-> 0]

Parsed(v, next) == [ok |-> TRUE, v |-> v, next |-> next]

IsStringTok(tok) == \E s \in StringPool : Quote(s) = tok

Unquote(tok) == CHOOSE s \in StringPool : Quote(s) = tok

IsNumberTok(tok) == \E n \in NumberPool : ToString(n) = tok

NumberOf(tok) == CHOOSE n \in NumberPool : ToString(n) = tok

RECURSIVE ParseValue(_, _)
RECURSIVE ParseElems(_, _, _)
RECURSIVE ParseMembers(_, _, _)

\* after "[" or a ",": one element, then "," or "]"
ParseElems(toks, p, acc) ==
  LET r == ParseValue(toks, p)
  IN  IF ~r.ok \/ r.next > Len(toks) THEN ParseError
      ELSE IF toks[r.next] = "]" THEN Parsed(List(Append(acc, r.v)), r.next + 1)
      ELSE IF toks[r.next] = "," THEN ParseElems(toks, r.next + 1, Append(acc, r.v))
      ELSE ParseError

\* after "{" or a ",": "key" : value, then "," or "}" ; a repeated key
\* keeps the last value
ParseMembers(toks, p, acc) ==
  IF p + 1 > Len(toks) \/ ~IsStringTok(toks[p]) \/ toks[p + 1] # ":"
    THEN ParseError
    ELSE LET r == ParseValue(toks, p + 2)
             m == DictSet(acc, Unquote(toks[p]), r.v)
         IN  IF ~r.ok \/ r.next > Len(toks) THEN ParseError
             ELSE IF toks[r.next] = "}" THEN Parsed(Dict(m), r.next + 1)
             ELSE IF toks[r.next] = "," THEN ParseMembers(toks, r.next + 1, m)
             ELSE ParseError

ParseValue(toks, p) ==
  IF p > Len(toks) THEN ParseError
  ELSE LET tok == toks[p]
       IN  IF tok = "null" THEN Parsed(None, p + 1)
           ELSE IF IsStringTok(tok) THEN Parsed(Str(Unquote(tok)), p + 1)
           ELSE IF IsNumberTok(tok) THEN Parsed(Num(NumberOf(tok)), p + 1)
           ELSE IF tok = "[" THEN
             IF p + 1 <= Len(toks) /\ toks[p + 1] = "]"
               THEN Parsed(List(<<>>), p + 2)
               ELSE ParseElems(toks, p + 1, <<>>)
           ELSE IF tok = "{" THEN
             IF p + 1 <= Len(toks) /\ toks[p + 1] = "}"
               THEN Parsed(Dict(<<>>), p + 2)
               ELSE ParseMembers(toks, p + 1, <<>>)
           ELSE ParseError

\* the whole text must be one value: trailing tokens are "Extra data"
Loads(toks) ==
  LET r == ParseValue(toks, 1)
  IN  IF r.ok /\ r.next = Len(toks) + 1 THEN r ELSE ParseError

(***************************************************************************)
(* The events.  event['services'] is JSON text; the other three fields are *)
(* passed through to every query.                                          *)
(***************************************************************************)
EntryEC2 == Dict(<< <<"Service", Str("Amazon EC2")>> >>)

EntryS3 == Dict(<< <<"Service", Str("Amazon S3")>>, <<"Cost", Num(2)>> >>)

EntryNoService == Dict(<< <<"Cost", Num(1)>> >>)

EntryPool == {EntryEC2, EntryS3, EntryNoService}

ServiceLists == UNION {[1..n -> EntryPool] : n \in 0..MaxLen}

\* texts that decode to a list of objects
ListTexts == {Dumps(List(l)) : l \in ServiceLists}

\* texts that are not JSON, and JSON that is not a list of objects
OtherTexts ==
  { <<"not", "valid", "json">>,
    <<"[", "{", Quote("Service")>>,
    <<"[", "]", "]">>,
    <<"null">>,
    <<Quote("")>>,
    Dumps(EntryEC2),
    Dumps(List(<<EntryEC2, Str("Amazon S3")>>)) }

ServicesTexts == ListTexts \cup OtherTexts

Event(text) ==
  [services |-> text, start_date |-> "2024-01-01",
   end_date |-> "2024-01-08", account_id |-> "123456789012"]

NoEvent == Event(<<>>)

NoResponse == [statusCode |-> 0, body |-> <<>>]

(***************************************************************************)
(* The Cost Explorer API: a call either returns a response dict or raises. *)
(***************************************************************************)
ApiResults == { <<>>, <<Num(1), Num(2)>>, <<Num(2), Num(1)>> }

\* network, authorisation, malformed filter, throttling
FailureKinds == {"EndpointConnectionError", "AccessDeniedException",
                 "ValidationException", "ThrottlingException"}

Returned(resp) == [raised |-> FALSE, response |-> resp, kind |-> "none"]

Raised(kind) == [raised |-> TRUE, response |-> None, kind |-> kind]

ResponseWith(results) ==
  Dict(<< <<"GroupDefinitions", List(<<>>)>>,
          <<"ResultsByTime", List(results)>> >>)

ResponseWithoutResults == Dict(<< <<"GroupDefinitions", List(<<>>)>> >>)

Request(service, account_id, start_date, end_date) ==
  [Service |-> service, Account |-> account_id,
   Start |-> start_date, End |-> end_date]

ErrorRecord(service, detail) ==
  [level |-> "error", service |-> service, detail |-> detail]

InfoRecord(report) == [level |-> "info", report |-> report]

(***************************************************************************)
(* breakdown_service_cost, from the point where get_cost_and_usage ends    *)
(* with `outcome`: the value returned (ret), the logging calls made (logs) *)
(* and the exception that leaves the function (exc, "none" if none).       *)
(***************************************************************************)
\* an error boundary that catches the failures of the call only
breakdown_service_cost_typed(service, outcome) ==
  IF outcome.raised
    THEN [ret |-> None, exc |-> "none",
          logs |-> <<ErrorRecord(service, outcome.kind)>>]
  ELSE IF DictHas(outcome.response.m, "ResultsByTime")
    THEN [ret |-> DictGet(outcome.response.m, "ResultsByTime"),
          exc |-> "none", logs |-> <<>>]
  ELSE [ret |-> None, exc |-> "KeyError", logs |-> <<>>]

\* an error boundary that lets throttling through
breakdown_service_cost_leaky(service, outcome) ==
  IF outcome.raised /\ outcome.kind = "ThrottlingException"
    THEN [ret |-> None, exc |-> outcome.kind, logs |-> <<>>]
  ELSE IF outcome.raised
    THEN [ret |-> None, exc |-> "none",
          logs |-> <<ErrorRecord(service, outcome.kind)>>]
  ELSE IF DictHas(outcome.response.m, "ResultsByTime")
    THEN [ret |-> DictGet(outcome.response.m, "ResultsByTime"),
          exc |-> "none", logs |-> <<>>]
  ELSE [ret |-> None, exc |-> "none",
        logs |-> <<ErrorRecord(service, "KeyError")>>]

\* return response['ResultsByTime'] or None : an empty list becomes None
breakdown_service_cost_falsy(service, outcome) ==
  IF outcome.raised
    THEN [ret |-> None, exc |-> "none",
          logs |-> <<ErrorRecord(service, outcome.kind)>>]
  ELSE IF DictHas(outcome.response.m, "ResultsByTime")
    THEN [ret |-> IF DictGet(outcome.response.m, "ResultsByTime").a = <<>>
                    THEN None
                    ELSE DictGet(outcome.response.m, "ResultsByTime"),
          exc |-> "none", logs |-> <<>>]
  ELSE [ret |-> None, exc |-> "none",
        logs |-> <<ErrorRecord(service, "KeyError")>>]

breakdown_service_cost(service, outcome) ==
  IF outcome.raised
    THEN \* line 37 raised: except Exception, lines 51-53
         [ret |-> None, exc |-> "none",
          logs |-> <<ErrorRecord(service, outcome.kind)>>]
  ELSE IF DictHas(outcome.response.m, "ResultsByTime")
    THEN \* line 49
         [ret |-> DictGet(outcome.response.m, "ResultsByTime"),
          exc |-> "none", logs |-> <<>>]
  ELSE \* line 49 raised KeyError: except Exception, lines 51-53
       [ret |-> None, exc |-> "none",
        logs |-> <<ErrorRecord(service, "KeyError")>>]

(***************************************************************************)
(* Iteration and subscription as Python does them.                         *)
(***************************************************************************)
\* for x in v : a list gives its elements, a dict its keys, a str its
\* characters (only the empty str occurs here); None and int raise TypeError
Iterable(v) == v.t \in {"arr", "obj", "str"}

Iter(v) ==
  CASE v.t = "arr" -> v.a
    [] v.t = "obj" -> [j \in 1..Len(v.m) |-> Str(v.m[j][1])]
    [] v.t = "str" /\ v.s = "" -> <<>>

\* v['Service'] : the exception it raises, "none" if it yields a value
SubscriptError(v) ==
  IF v.t # "obj" THEN "TypeError"
  ELSE IF ~DictHas(v.m, "Service") THEN "KeyError"
  ELSE "none"

(***************************************************************************)
(* lambda_handler.                                                         *)
(***************************************************************************)
Init ==
  /\ pc = "idle"
  /\ event = NoEvent
  /\ services = None
  /\ idx = 0
  /\ service_name = ""
  /\ cost_breakdown = <<>>
  /\ response = NoResponse
  /\ raised = "none"
  /\ log = <<>>
  /\ queries = <<>>
  /\ outcomes = <<>>
  /\ earlier_keys = {}

\* lines 71-75 with a report dict that lives at module level and still has
\* the keys of the earlier reports
InvokeReusingReport(text) ==
  /\ pc = "idle"
  /\ event' = Event(text)
  /\ LET r == Loads(text)
     IN  IF r.ok
           THEN /\ services' = r.v
                /\ cost_breakdown' =
                     SelectSeq(<< <<"Amazon EC2", None>>, <<"Amazon S3", None>> >>,
                               LAMBDA e : e[1] \in earlier_keys)
                /\ idx' = 1
                /\ UNCHANGED raised
                /\ pc' = "loop"
           ELSE /\ raised' = "JSONDecodeError"
                /\ pc' = "failed"
                /\ UNCHANGED <<services, cost_breakdown, idx>>
  /\ UNCHANGED <<service_name, response, log, queries, outcomes, earlier_keys>>

\* The runtime calls lambda_handler(event, context); lines 71-75.
Invoke(text) ==
  /\ pc = "idle"
  /\ event' = Event(text)
  /\ LET r == Loads(text)
     IN  IF r.ok
           THEN /\ services' = r.v
                /\ cost_breakdown' = <<>>
                /\ idx' = 1
                /\ UNCHANGED raised
                /\ pc' = "loop"
           ELSE \* json.loads raised at line 71: no local is bound
                /\ raised' = "JSONDecodeError"
                /\ pc' = "failed"
                /\ UNCHANGED <<services, cost_breakdown, idx>>
  /\ UNCHANGED <<service_name, response, log, queries, outcomes, earlier_keys>>

\* a loop that skips the entries without 'Service' instead of raising
RejectInputSkipping ==
  /\ pc = "loop"
  /\ \/ /\ ~Iterable(services)
        /\ raised' = "TypeError"
        /\ pc' = "failed"
        /\ UNCHANGED idx
     \/ /\ Iterable(services)
        /\ idx <= Len(Iter(services))
        /\ SubscriptError(Iter(services)[idx]) # "none"
        /\ idx' = idx + 1
        /\ UNCHANGED <<raised, pc>>
  /\ UNCHANGED <<event, services, service_name, cost_breakdown,
                 response, log, queries, outcomes, earlier_keys>>

\* line 77 or line 78 raises: the iterable is None or an int, or the entry
\* has no 'Service'
RejectInput ==
  /\ pc = "loop"
  /\ \/ /\ ~Iterable(services)
        /\ raised' = "TypeError"
     \/ /\ Iterable(services)
        /\ idx <= Len(Iter(services))
        /\ SubscriptError(Iter(services)[idx]) # "none"
        /\ raised' = SubscriptError(Iter(services)[idx])
  /\ pc' = "failed"
  /\ UNCHANGED <<event, services, idx, service_name, cost_breakdown,
                 response, log, queries, outcomes, earlier_keys>>

\* lines 77-80 and 37: the next entry names a service and the query for it
\* is sent
IssueQuery ==
  /\ pc = "loop"
  /\ Iterable(services)
  /\ idx <= Len(Iter(services))
  /\ SubscriptError(Iter(services)[idx]) = "none"
  /\ service_name' = DictGet(Iter(services)[idx].m, "Service").s
  /\ queries' = Append(queries, Request(service_name', event.account_id,
                                        event.start_date, event.end_date))
  /\ pc' = "call"
  /\ UNCHANGED <<event, services, idx, cost_breakdown, response, raised,
                 log, outcomes, earlier_keys>>

\* a loop that stops at the first failed query
CompleteStoppingOnFailure(outcome) ==
  /\ pc = "call"
  /\ outcomes' = Append(outcomes, outcome)
  /\ LET b == breakdown_service_cost(service_name, outcome)
     IN  /\ log' = log \o b.logs
         /\ cost_breakdown' = DictSet(cost_breakdown, service_name, b.ret)
         /\ idx' = IF outcome.raised THEN Len(Iter(services)) + 1 ELSE idx + 1
         /\ pc' = "loop"
         /\ UNCHANGED raised
  /\ UNCHANGED <<event, services, service_name, response, queries,
                 earlier_keys>>

\* the call of line 37 ends with `outcome`; the rest of
\* breakdown_service_cost, then line 81 and back to line 77
Complete(outcome) ==
  /\ pc = "call"
  /\ outcomes' = Append(outcomes, outcome)
  /\ LET b == breakdown_service_cost(service_name, outcome)
     IN  /\ log' = log \o b.logs
         /\ IF b.exc = "none"
              THEN /\ cost_breakdown' =
                        DictSet(cost_breakdown, service_name, b.ret)
                   /\ idx' = idx + 1
                   /\ pc' = "loop"
                   /\ UNCHANGED raised
              ELSE /\ raised' = b.exc
                   /\ pc' = "failed"
                   /\ UNCHANGED <<cost_breakdown, idx>>
  /\ UNCHANGED <<event, services, service_name, response, queries,
                 earlier_keys>>

CallReturns(results) == Complete(Returned(ResponseWith(results)))

CallReturnsWithoutResults == Complete(Returned(ResponseWithoutResults))

CallRaises(kind) == Complete(Raised(kind))

\* a handler that answers 500 when a query failed
ReturnErrorStatus ==
  /\ pc = "loop"
  /\ Iterable(services)
  /\ idx > Len(Iter(services))
  /\ log' = Append(log, InfoRecord(cost_breakdown))
  /\ response' =
       [statusCode |-> IF \E j \in 1..Len(cost_breakdown) :
                            cost_breakdown[j][2] = None
                         THEN 500 ELSE 200,
        body |-> Dumps(Dict(cost_breakdown))]
  /\ pc' = "returned"
  /\ UNCHANGED <<event, services, idx, service_name, cost_breakdown,
                 raised, queries, outcomes, earlier_keys>>

\* lines 83-87: the loop is exhausted
Return ==
  /\ pc = "loop"
  /\ Iterable(services)
  /\ idx > Len(Iter(services))
  /\ log' = Append(log, InfoRecord(cost_breakdown))
  /\ response' = [statusCode |-> 200, body |-> Dumps(Dict(cost_breakdown))]
  /\ pc' = "returned"
  /\ UNCHANGED <<event, services, idx, service_name, cost_breakdown,
                 raised, queries, outcomes, earlier_keys>>

\* The invocation is over: the runtime has the response or the exception,
\* the frame and its locals are gone, and the process waits for the next
\* event.  Nothing of the module survives but ce_client (line 20).
Deliver ==
  /\ pc \in {"returned", "failed"}
  /\ earlier_keys' = IF pc = "returned"
                       THEN earlier_keys \cup {e[1] : e \in Range(cost_breakdown)}
                       ELSE earlier_keys
  /\ pc' = "idle"
  /\ event' = NoEvent
  /\ services' = None
  /\ idx' = 0
  /\ service_name' = ""
  /\ cost_breakdown' = <<>>
  /\ response' = NoResponse
  /\ raised' = "none"
  /\ log' = <<>>
  /\ queries' = <<>>
  /\ outcomes' = <<>>

Next ==
  \/ \E text \in ServicesTexts : Invoke(text)
  \/ RejectInput
  \/ IssueQuery
  \/ \E results \in ApiResults : CallReturns(results)
  \/ CallReturnsWithoutResults
  \/ \E kind \in FailureKinds : CallRaises(kind)
  \/ Return
  \/ Deliver

Spec == Init /\ [][Next]_vars

(***************************************************************************)
(* What the properties talk about: the input as the caller wrote it, and   *)
(* the answers the API gave.                                               *)
(***************************************************************************)
Decoded == Loads(event.services)

HasService(e) == e.t = "obj" /\ \E j \in 1..Len(e.m) : e.m[j][1] = "Service"

ServiceOf(e) == (CHOOSE pair \in Range(e.m) : pair[1] = "Service")[2].s

\* d is a decoded text: it is a list
IsList(d) == d.ok /\ d.v.t = "arr"

\* d is a list of objects that all have a Service field
IsValid(d) == IsList(d) /\ \A j \in 1..Len(d.v.a) : HasService(d.v.a[j])

\* d is not JSON, or is a list with an entry without Service
IsMalformed(d) ==
  \/ ~d.ok
  \/ IsList(d) /\ \E j \in 1..Len(d.v.a) : ~HasService(d.v.a[j])

NamesOf(d) == [j \in 1..Len(d.v.a) |-> ServiceOf(d.v.a[j])]

ValidInput == pc # "idle" /\ IsValid(Decoded)

InputNames == NamesOf(Decoded)

ReportKeys == {cost_breakdown[j][1] : j \in 1..Len(cost_breakdown)}

ValueAt(m, k) == (CHOOSE pair \in Range(m) : pair[1] = k)[2]

BodyReport == Loads(response.body)

Succeeded(o) ==
  ~o.raised /\ \E j \in 1..Len(o.response.m) : o.response.m[j][1] = "ResultsByTime"

LacksResults(o) == ~o.raised /\ ~Succeeded(o)

ResultsByTime(o) == ValueAt(o.response.m, "ResultsByTime")

\* the j-th call is the latest completed call for its service
IsLatest(j) ==
  \A k \in (j + 1)..Len(outcomes) : queries[k].Service # queries[j].Service

(***************************************************************************)
(* C1: for a valid input, when lambda_handler returns, the keys of the     *)
(* report are exactly the Service values of the input list, each once,     *)
(* whatever queries failed; the same holds of the decoded body.            *)
(***************************************************************************)
C1_KeySetEqualsInputNames ==
  pc = "returned" =>
    LET d == Decoded
        body == BodyReport
    IN  IsValid(d) =>
          LET names == Range(NamesOf(d))
          IN  /\ ReportKeys = names
              /\ Cardinality(ReportKeys) = Len(cost_breakdown)
              /\ body.ok /\ body.v.t = "obj"
              /\ {e[1] : e \in Range(body.v.m)} = names
              /\ Len(body.v.m) = Cardinality(names)

C1_Witness ==
  /\ pc = "returned" /\ ValidInput
  /\ Range(InputNames) = Names
  /\ Len(InputNames) = 3
  /\ \E j \in 1..Len(outcomes) : outcomes[j].raised /\ IsLatest(j)
  /\ \E j \in 1..Len(outcomes) : Succeeded(outcomes[j])

(***************************************************************************)
(* C2: when the API call for a service succeeds, the report holds under    *)
(* that name the ResultsByTime list of the response, same entries in the   *)
(* same order, as long as no later call for the same name replaced it; an  *)
(* empty list stays an empty list and is not None.  The returned body      *)
(* decodes to the same value.                                              *)
(***************************************************************************)
C2_SuccessPassesResultsThrough ==
  \A j \in 1..Len(outcomes) :
    (Succeeded(outcomes[j]) /\ IsLatest(j)) =>
      /\ queries[j].Service \in ReportKeys
      /\ ValueAt(cost_breakdown, queries[j].Service) = ResultsByTime(outcomes[j])
      /\ ValueAt(cost_breakdown, queries[j].Service).t = "arr"
      /\ pc = "returned" =>
           LET body == BodyReport
           IN  /\ body.ok
               /\ ValueAt(body.v.m, queries[j].Service)
                    = ResultsByTime(outcomes[j])

C2_Witness ==
  /\ pc = "returned"
  /\ \E j, k \in 1..Len(outcomes) :
       /\ Succeeded(outcomes[j]) /\ Succeeded(outcomes[k])
       /\ queries[j].Service # queries[k].Service
       /\ ValueAt(cost_breakdown, queries[j].Service) = List(<<>>)
       /\ ValueAt(cost_breakdown, queries[k].Service) = List(<<Num(2), Num(1)>>)

(***************************************************************************)
(* C3: when the API call for a service raises, whatever the kind of        *)
(* failure, no exception leaves breakdown_service_cost: the loop moves on  *)
(* to the next entry, the report holds None under that name (until a later *)
(* call for the same name replaces it) and an error record naming the      *)
(* service and the failure has been logged.                                *)
(***************************************************************************)
C3_FailureBecomesNone ==
  /\ raised \notin FailureKinds
  /\ \A j \in 1..Len(outcomes) :
       outcomes[j].raised =>
         /\ idx > j
         /\ ErrorRecord(queries[j].Service, outcomes[j].kind) \in Range(log)
         /\ IsLatest(j) =>
              /\ queries[j].Service \in ReportKeys
              /\ ValueAt(cost_breakdown, queries[j].Service) = None

C3_Witness ==
  /\ pc = "returned"
  /\ Len(outcomes) = 3
  /\ Cardinality({outcomes[j].kind : j \in 1..3} \cap FailureKinds) = 3
  /\ \E e \in Range(BodyReport.v.m) : e[1] = "Amazon S3" /\ e[2] = None

(***************************************************************************)
(* C4: when the services text is not JSON, or decodes to a list with an    *)
(* entry that has no Service (at any position), the invocation never       *)
(* returns: there is no response, the report is never logged, and at the   *)
(* offending entry the only step left is the one that raises.              *)
(***************************************************************************)
C4_MalformedInputFails ==
  pc # "idle" =>
    LET d == Decoded
    IN  IsMalformed(d) =>
          /\ pc # "returned"
          /\ response = NoResponse
          /\ \A j \in 1..Len(log) : log[j].level # "info"
          /\ ~d.ok => (pc = "failed" /\ raised = "JSONDecodeError"
                         /\ queries = <<>>)
          /\ pc = "loop" =>
               /\ idx <= Len(d.v.a)
               /\ ~HasService(d.v.a[idx]) =>
                    (ENABLED RejectInput /\ ~ENABLED IssueQuery
                       /\ ~ENABLED Return)

C4_Witness ==
  /\ pc = "failed" /\ raised = "KeyError"
  /\ IsMalformed(Decoded) /\ Decoded.ok
  /\ idx = 3 /\ Len(outcomes) = 2
  /\ Len(cost_breakdown) = 2

(***************************************************************************)
(* C5: when a service name occurs more than once in the input, the report  *)
(* has one key for it and its value is what the latest call for that name  *)
(* gave: None if that call failed, its list if it succeeded.               *)
(***************************************************************************)
C5_LastWriteWins ==
  pc = "returned" =>
    \A j \in 1..Len(outcomes) :
      IsLatest(j) =>
        /\ Cardinality({k \in 1..Len(cost_breakdown) :
                          cost_breakdown[k][1] = queries[j].Service}) = 1
        /\ ValueAt(cost_breakdown, queries[j].Service) =
             IF Succeeded(outcomes[j]) THEN ResultsByTime(outcomes[j]) ELSE None

C5_Witness ==
  /\ pc = "returned" /\ ValidInput
  /\ InputNames = <<"Amazon EC2", "Amazon EC2", "Amazon EC2">>
  /\ Succeeded(outcomes[1]) /\ outcomes[2].raised /\ Succeeded(outcomes[3])
  /\ ResultsByTime(outcomes[1]) # ResultsByTime(outcomes[3])
  /\ ValueAt(cost_breakdown, "Amazon EC2") = List(<<Num(2), Num(1)>>)

(***************************************************************************)
(* C6: every response has statusCode 200 and a body that decodes to the    *)
(* report; there is a response exactly when the handler returned.          *)
(***************************************************************************)
C6_ResponseIs200WithReport ==
  /\ (pc = "returned") <=> (response # NoResponse)
  /\ response # NoResponse =>
       LET body == BodyReport
       IN  /\ response.statusCode = 200
           /\ body.ok
           /\ body.v = Dict(cost_breakdown)

C6_Witness ==
  /\ pc = "returned"
  /\ Len(outcomes) = 2
  /\ \A j \in 1..2 : outcomes[j].raised
  /\ Len(cost_breakdown) = 2
  /\ response.statusCode = 200

(***************************************************************************)
(* C7: the keys of the report, and of the body, are in input order: a name *)
(* comes before another exactly when its first occurrence in the input     *)
(* comes first.                                                            *)
(***************************************************************************)
FirstAt(names, n) == CHOOSE j \in 1..Len(names) :
                       names[j] = n /\ \A k \in 1..(j - 1) : names[k] # n

C7_KeysInInputOrder ==
  pc = "returned" =>
    LET d == Decoded
    IN  IsValid(d) =>
          LET names == NamesOf(d)
          IN  /\ \A a, b \in 1..Len(cost_breakdown) :
                   a < b => FirstAt(names, cost_breakdown[a][1])
                              < FirstAt(names, cost_breakdown[b][1])
              /\ DictKeys(BodyReport.v.m) = DictKeys(cost_breakdown)

C7_Witness ==
  /\ pc = "returned" /\ ValidInput
  /\ InputNames = <<"Amazon S3", "Amazon EC2", "Amazon S3">>
  /\ DictKeys(cost_breakdown) = <<"Amazon S3", "Amazon EC2">>

(***************************************************************************)
(* C8: the report of an invocation is built from nothing with the answers  *)
(* to its own queries only: a key that an earlier invocation reported      *)
(* appears only if the own event names it, and the values are those of the *)
(* own calls.                                                              *)
(***************************************************************************)
C8_InvocationsAreIndependent ==
  /\ ReportKeys \subseteq {queries[j].Service : j \in 1..Len(outcomes)}
  /\ \A k \in ReportKeys :
       \E j \in 1..Len(outcomes) :
         /\ queries[j].Service = k
         /\ ValueAt(cost_breakdown, k) =
              IF Succeeded(outcomes[j]) THEN ResultsByTime(outcomes[j]) ELSE None
  /\ (pc = "loop" /\ idx = 1) => cost_breakdown = <<>>
  /\ pc = "returned" =>
       LET d == Decoded
       IN  IsList(d) =>
             {e[1] : e \in Range(BodyReport.v.m)} \subseteq
               {ServiceOf(e) : e \in {x \in Range(d.v.a) : HasService(x)}}

C8_Witness ==
  /\ pc = "returned"
  /\ earlier_keys = {"Amazon EC2"}
  /\ ReportKeys = {"Amazon S3"}

(***************************************************************************)
(* C9: the handler sends one query per entry of the list, in input order,  *)
(* with the event's account and dates; a query ends before the next one is *)
(* sent; a failed query is not sent again and does not stop the loop: for  *)
(* a valid input no exception leaves the handler, the next entry can       *)
(* always be queried and after the last one the handler can return.        *)
(***************************************************************************)
C9_OneQueryPerEntryInOrder ==
  /\ Len(queries) = Len(outcomes) + (IF pc = "call" THEN 1 ELSE 0)
  /\ pc # "idle" =>
       LET d == Decoded
       IN  /\ IsList(d) =>
                /\ Len(queries) <= Len(d.v.a)
                /\ \A j \in 1..Len(queries) :
                     /\ HasService(d.v.a[j])
                     /\ queries[j] =
                          Request(ServiceOf(d.v.a[j]), event.account_id,
                                  event.start_date, event.end_date)
           /\ IsValid(d) =>
                /\ pc # "failed"
                /\ pc = "returned" => Len(queries) = Len(d.v.a)
                /\ (pc = "loop" /\ Len(outcomes) < Len(d.v.a))
                     => ENABLED IssueQuery
                /\ (pc = "loop" /\ Len(outcomes) = Len(d.v.a))
                     => ENABLED Return

C9_Witness ==
  /\ pc = "returned" /\ ValidInput
  /\ Len(queries) = 3
  /\ outcomes[1].raised /\ Succeeded(outcomes[2]) /\ outcomes[3].raised
  /\ queries[1].Service = queries[3].Service

(***************************************************************************)
(* C10 as stated: a response without ResultsByTime is not turned into a    *)
(* None entry: the KeyError leaves breakdown_service_cost and the handler  *)
(* at that entry.                                                          *)
(***************************************************************************)
C10_TypedBoundary ==
  \A j \in 1..Len(outcomes) :
    LacksResults(outcomes[j]) =>
      (pc = "failed" /\ raised = "KeyError" /\ idx = j)

(***************************************************************************)
(* C10 amended: the boundary catches every exception raised inside the     *)
(* try block: after a response without ResultsByTime the loop moves on to  *)
(* the next entry, the report holds None under the service name (until a   *)
(* later call for the same name replaces it) and the KeyError has been     *)
(* logged with that name.                                                  *)
(***************************************************************************)
C10_BroadBoundary ==
  \A j \in 1..Len(outcomes) :
    LacksResults(outcomes[j]) =>
      /\ idx > j
      /\ ErrorRecord(queries[j].Service, "KeyError") \in Range(log)
      /\ IsLatest(j) => ValueAt(cost_breakdown, queries[j].Service) = None

C10_Witness ==
  /\ pc = "returned"
  /\ Len(outcomes) = 2
  /\ Succeeded(outcomes[1])
  /\ LacksResults(outcomes[2])
  /\ ValueAt(BodyReport.v.m, queries[2].Service) = None

====
